---- MODULE Spec2Model ----
(***************************************************************************)
(* Model of the `recommend` pipeline of the media-library CLI              *)
(* (src/src/main.rs): resolve -> retrieve -> join -> render, together      *)
(* with the path helpers it relies on (std::path, pathdiff::diff_paths)    *)
(* and check_and_correct_extension.                                        *)
(*                                                                         *)
(* A path is a record [abs, comps]: abs tells whether it has a root, comps *)
(* is the sequence of its components after the root.  A component is a     *)
(* sequence of tokens; the token "." is the dot character, every other     *)
(* token is a dot-free piece of a name.  <<".", ".">> is the parent        *)
(* directory component and <<".">> the current directory component; comps  *)
(* is the path as written, Path::components is what drops the "." that do  *)
(* not count.  The token "\\xFF" stands for a byte that is not UTF-8.       *)
(* Option<T> is the empty set (None) or a singleton.                       *)
(***************************************************************************)
EXTENDS Naturals, Integers, Sequences, FiniteSets, TLC

VARIABLES cli, pc, canonicalized_path, file_id, recommendations, files,
          corrected_path, created_dirs, out_file, file_idx,
          stderr, stdout, table, calls, trace, norm

vars == <<cli, pc, canonicalized_path, file_id, recommendations, files,
          corrected_path, created_dirs, out_file, file_idx,
          stderr, stdout, table, calls, trace, norm>>

pipeline_vars == <<cli, pc, canonicalized_path, file_id, recommendations, files,
                   corrected_path, created_dirs, out_file, file_idx,
                   stderr, stdout, table, calls, trace>>

\* ---------------------------------------------------------------- bounds
MaxNum == 3
MaxId == 3
MaxDepth == 2

\* ---------------------------------------------------------------- options
None == {}
Some(x) == {x}
Unwrap(o) == CHOOSE x \in o : TRUE

\* ---------------------------------------------------------------- std::path
ParentDir == <<".", ".">>
CurDir == <<".">>
RootDir == <<"/">>

Path(a, c) == [abs |-> a, comps |-> c]

\* the components that count: every "." is skipped except a leading one of
\* a relative path
Normalized(p) ==
    LET keep == {i \in DOMAIN p.comps :
                    p.comps[i] # CurDir \/ (i = 1 /\ ~p.abs)}
        idx(k) == CHOOSE i \in keep : Cardinality({j \in keep : j <= i}) = k
    IN [k \in 1..Cardinality(keep) |-> p.comps[idx(k)]]

\* Path::components: the root, then the components that count
components(p) == IF p.abs THEN <<RootDir>> \o Normalized(p) ELSE Normalized(p)

\* PartialEq for Path: equality of the components
path_eq(p, q) == components(p) = components(q)

\* the path as written without the trailing "." that do not count
RECURSIVE Trimmed(_, _)
Trimmed(abs, comps) ==
    IF comps # <<>> /\ comps[Len(comps)] = CurDir /\ (abs \/ Len(comps) > 1)
    THEN Trimmed(abs, SubSeq(comps, 1, Len(comps) - 1))
    ELSE comps

InvalidByte == "\\xFF"

\* OsStr::to_str: None when the bytes are not UTF-8
to_str(name) == IF InvalidByte \in {name[i] : i \in DOMAIN name} THEN None ELSE Some(name)
path_to_str(p) ==
    IF \E i \in DOMAIN p.comps : to_str(p.comps[i]) = None THEN None ELSE Some(p)

\* Path::join: an absolute argument replaces the receiver
join(p, q) == IF q.abs THEN q ELSE Path(p.abs, p.comps \o q.comps)

\* Path::parent: the path without its last component, None for a root or ""
parent(p) ==
    LET t == Trimmed(p.abs, p.comps)
    IN IF t = <<>> THEN None
       ELSE Some(Path(p.abs, Trimmed(p.abs, SubSeq(t, 1, Len(t) - 1))))

\* Path::file_name: the last component when it is a normal one
file_name(p) ==
    LET t == Trimmed(p.abs, p.comps)
    IN IF t = <<>> THEN None
       ELSE IF t[Len(t)] \in {ParentDir, CurDir} THEN None
       ELSE Some(t[Len(t)])

\* index of the last "." of a name, 0 when it has none
LastDot(name) ==
    LET dots == {i \in 1..Len(name) : name[i] = "."}
    IN IF dots = {} THEN 0 ELSE CHOOSE i \in dots : \A j \in dots : j <= i

\* std::path::rsplit_file_at_dot
rsplit_file_at_dot(f) ==
    IF f = ParentDir THEN [before |-> Some(f), after |-> None]
    ELSE LET k == LastDot(f) IN
         IF k = 0 THEN [before |-> None, after |-> Some(f)]
         ELSE IF k = 1 THEN [before |-> Some(f), after |-> None]
         ELSE [before |-> Some(SubSeq(f, 1, k - 1)),
               after  |-> Some(SubSeq(f, k + 1, Len(f)))]

\* Path::file_stem: before.or(after)
file_stem(p) ==
    IF file_name(p) = None THEN None
    ELSE LET s == rsplit_file_at_dot(Unwrap(file_name(p)))
         IN IF s.before # None THEN s.before ELSE s.after

\* Path::extension: before.and(after)
extension(p) ==
    IF file_name(p) = None THEN None
    ELSE LET s == rsplit_file_at_dot(Unwrap(file_name(p)))
         IN IF s.before # None THEN s.after ELSE None

\* PathBuf::set_extension: does nothing (returns false) without a file
\* name; otherwise truncates right after the stem of the file name and
\* appends "." and ext
set_extension(p, ext) ==
    IF file_stem(p) = None THEN p
    ELSE LET stem == Unwrap(file_stem(p))
             name == IF ext # <<>> THEN stem \o <<".">> \o ext ELSE stem
             t == Trimmed(p.abs, p.comps)
         IN Path(p.abs, SubSeq(t, 1, Len(t) - 1) \o <<name>>)

\* a faulty variant: the extension is appended to the file name, never replaced
check_and_correct_extension_appending(path, expected_extension) ==
    IF file_name(path) = None THEN path
    ELSE LET t == Trimmed(path.abs, path.comps)
         IN Path(path.abs,
                 SubSeq(t, 1, Len(t) - 1)
                   \o <<Unwrap(file_name(path)) \o <<".">> \o expected_extension>>)

\* Option::and_then(|ext| ext.to_str())
and_then_to_str(o) == IF o = None THEN None ELSE to_str(Unwrap(o))

check_and_correct_extension(path, expected_extension) ==
    IF and_then_to_str(extension(path)) # Some(expected_extension)
    THEN set_extension(path, expected_extension)
    ELSE path

\* ---------------------------------------------------------------- pathdiff
RECURSIVE ParentDirs(_)
ParentDirs(n) == IF n = 0 THEN <<>> ELSE <<ParentDir>> \o ParentDirs(n - 1)

RECURSIVE diff_loop(_, _, _)
diff_loop(ita, itb, comps) ==
    IF ita = <<>> /\ itb = <<>> THEN Some(comps)
    ELSE IF itb = <<>> THEN Some(comps \o ita)
    ELSE IF ita = <<>> THEN diff_loop(<<>>, Tail(itb), Append(comps, ParentDir))
    ELSE LET a == Head(ita)
             b == Head(itb)
         IN IF comps = <<>> /\ a = b THEN diff_loop(Tail(ita), Tail(itb), comps)
            ELSE IF b = CurDir THEN diff_loop(Tail(ita), Tail(itb), Append(comps, a))
            ELSE IF b = ParentDir THEN None
            ELSE Some(comps \o ParentDirs(Len(itb)) \o ita)

diff_paths(path, base) ==
    IF path.abs # base.abs
    THEN IF path.abs THEN Some(path) ELSE None
    ELSE LET r == diff_loop(components(path), components(base), <<>>)
         IN IF r = None THEN None ELSE Some(Path(FALSE, Unwrap(r)))

\* ---------------------------------------------------------------- file system
\* lexical resolution of "." and ".." (a root is its own parent)
RECURSIVE LexResolve(_, _)
LexResolve(done, rest) ==
    IF rest = <<>> THEN done
    ELSE IF Head(rest) = CurDir THEN LexResolve(done, Tail(rest))
    ELSE IF Head(rest) = ParentDir
         THEN LexResolve(IF done = <<>> THEN <<>> ELSE SubSeq(done, 1, Len(done) - 1),
                      Tail(rest))
         ELSE LexResolve(Append(done, Head(rest)), Tail(rest))

Cwd == Path(TRUE, << <<"p">> >>)

\* fs::canonicalize on a file system without symbolic links: the absolute
\* path with every "." and ".." resolved
canonicalize(p) == Path(TRUE, LexResolve(<<>>, join(Cwd, p).comps))

\* ---------------------------------------------------------------- inputs
N(t) == <<t>>
OutName == <<"out">>
OutJson == <<"out", ".", "json">>
OutM3u8 == <<"out", ".", "m3u8">>
OutUpper == <<"out", ".", "JSON">>

\* the forms in which the caller can name the library /p/lib
LibraryPool ==
    { Path(TRUE, <<N("p"), N("lib")>>),
      Path(FALSE, <<CurDir, N("lib")>>),
      Path(TRUE, <<N("p"), CurDir, N("x"), ParentDir, N("lib")>>),
      Path(TRUE, <<N("p"), <<"bad", InvalidByte>>>>) }

OutputPool ==
    { Path(FALSE, <<OutName>>),
      Path(FALSE, <<OutJson>>),
      Path(FALSE, <<OutM3u8>>),
      Path(FALSE, <<OutUpper>>),
      Path(FALSE, <<CurDir, N("playlists"), <<"mix">>>>),
      Path(TRUE, <<N("p"), N("lib"), OutM3u8>>),
      Path(TRUE, <<N("q"), OutJson>>),
      Path(TRUE, <<N("p"), OutM3u8>>),
      Path(FALSE, <<N("x"), ParentDir, N("y"), OutM3u8>>),
      Path(FALSE, <<N("y"), ParentDir, OutM3u8>>),
      Path(FALSE, <<ParentDir>>),
      Path(FALSE, <<ParentDir, OutM3u8>>),
      Path(FALSE, <<CurDir>>),
      Path(FALSE, << <<"bad", InvalidByte, ".", "m3u8">> >>),
      Path(TRUE, <<>>) }

FormatPool == {"json", "m3u8", "xml"}

ItemIds == {1, MaxId}

RecommendArgs ==
    [ command : {"recommend"},
      library : LibraryPool,
      item_id : {None} \cup {Some(i) : i \in ItemIds},
      file_path : {None, Some(Path(FALSE, <<N("d"), <<"a", ".", "mp3">>>>)),
                   Some(Path(FALSE, << <<"missing", ".", "mp3">> >>))},
      num : 1..MaxNum,
      format : {None} \cup {Some(f) : f \in FormatPool},
      output : {None} \cup {Some(o) : o \in OutputPool} ]

OtherArgs ==
    [ command : {"scan", "analyze"},
      library : LibraryPool,
      item_id : {None}, file_path : {None}, num : {10},
      format : {None}, output : {None} ]

\* clap's group "recommend_group" rejects item_id together with file_path
CliPool ==
    {c \in RecommendArgs : c.item_id = None \/ c.file_path = None} \cup OtherArgs

\* ---------------------------------------------------------------- collaborators
Dists == {1, 2}
Entries == [id : 1..MaxId, distance : Dists]

\* get_recommendation: at most num entries, distinct ids, ascending distance
RecommendationLists(num) ==
    {s \in UNION {[1..n -> Entries] : n \in 0..num} :
        /\ \A i, j \in DOMAIN s : i < j => s[i].id # s[j].id
        /\ \A i, j \in DOMAIN s : i < j => s[i].distance <= s[j].distance}

TrackNames == <<"a", "b", "c", "d", "e">>

\* the file-metadata store: every id below MaxId has a record
HasRecord(id) == id < MaxId
Record(id) ==
    [ id |-> id,
      directory |-> IF id % 2 = 1 THEN Path(FALSE, <<N("d")>>) ELSE Path(FALSE, <<>>),
      file_name |-> Path(FALSE, << <<TrackNames[id], ".", "mp3">> >>) ]

\* get_file_id_from_path: the id of the record stored under the given path
LookupIdByPath(fp) ==
    {id \in 1..MaxId :
        HasRecord(id) /\ join(Record(id).directory, Record(id).file_name) = fp}

\* get_files_by_ids: the records of the requested ids that exist, in any order
StoreResults(ids) ==
    LET found == {id \in {ids[i] : i \in DOMAIN ids} : HasRecord(id)}
        n == Cardinality(found)
    IN {[i \in 1..n |-> Record(o[i])] :
           o \in {f \in [1..n -> found] : \A i, j \in 1..n : i # j => f[i] # f[j]}}

\* ---------------------------------------------------------------- diagnostics
ErrCanonicalize == "Failed to canonicalize path"
ErrInvalidPath == "Invalid path, could not convert to string"
ErrMainDb == "Failed to connect to main database"
ErrAnalysisDb == "Failed to connect to analysis database"
ErrAnalysis == "Audio analysis failed"
ErrSync == "Sync recommendation failed"
ErrLookup == "get_file_id_from_path error"
ErrSelector == "Either item_id or file_path must be provided."
ErrRetrieve == "Failed to get recommendations"
ErrJoin == "Failed to get files by IDs"
ErrOutputRequired == "Output file path is required when format is specified"
ErrCreateDirs == "Failed to create directories"
ErrCreateFile == "Failed to create file"
ErrWrite == "Failed to write to file"
ErrRelative == "Failed to calculate relative path"
ErrUnsupported == "Unsupported format. Supported formats are 'json' and 'm3u8'."
WarnJson == "Warning: Output file extension corrected to .json"
WarnM3u8 == "Warning: Output file extension corrected to .m3u8"
OkScan == "Library scanned successfully."
OkAnalyze == "Audio analysis completed successfully."
OkJson == "Recommendations saved to JSON file."
OkM3u8 == "Recommendations saved to M3U8 file"
PanicUnwrap == "called Option::unwrap() on a None value"
Header == "#EXTM3U"

\* println!(msg) and println!("msg: {}", arg)
Say(msg) == [msg |-> msg, arg |-> None]
SayWith(msg, arg) == [msg |-> msg, arg |-> Some(arg)]

\* a call of a collaborator with its arguments
Call(fn, args) == [fn |-> fn, args |-> args]

\* the directories that exist before the run
ExistingDirs ==
    { Path(TRUE, <<>>), Path(TRUE, <<N("p")>>), Path(TRUE, <<N("p"), N("x")>>),
      Path(TRUE, <<N("p"), N("lib")>>), Path(TRUE, <<N("p"), <<"bad", InvalidByte>>>>) }

\* the missing directories among the first k ancestors of dir, root first:
\* fs::create_dir_all makes them in this order, one mkdir each
MissingDirsUpTo(dir, k) ==
    LET c == Normalized(dir)
    IN {d \in {canonicalize(Path(dir.abs, SubSeq(c, 1, j))) : j \in 0..k} :
           d \notin ExistingDirs}

\* fs::create_dir_all: the directory and every ancestor that is missing
MissingDirs(dir) == MissingDirsUpTo(dir, Len(Normalized(dir)))

\* fs::create_dir_all that fails: the directories made before the mkdir that
\* failed.  The step that fails is the mkdir of a missing ancestor or the
\* examination of one that is there (permission denied): the last one may
\* fail after every missing directory has been made (dir ends in ".."), and
\* with nothing missing the failing call makes nothing
FailedCreateDirs(dir) ==
    LET n == Len(Normalized(dir))
    IN {MissingDirsUpTo(dir, k) : k \in 0..(IF n = 0 THEN 0 ELSE n - 1)}

Event(s, ok) == [stage |-> s, ok |-> ok]

\* eprintln!(msg); return;
Abort(stage, msg) ==
    /\ stderr' = Append(stderr, msg)
    /\ trace' = Append(trace, Event(stage, FALSE))
    /\ pc' = "exit"

NormIdle == [step |-> 0, p |-> Path(FALSE, <<>>), e |-> <<>>,
             once |-> Path(FALSE, <<>>), twice |-> Path(FALSE, <<>>)]

Init ==
    /\ cli \in CliPool
    /\ pc = "canonicalize"
    /\ canonicalized_path = None
    /\ file_id = None
    /\ recommendations = <<>>
    /\ files = <<>>
    /\ corrected_path = None
    /\ created_dirs = {}
    /\ out_file = None
    /\ file_idx = 0
    /\ stderr = <<>>
    /\ stdout = <<>>
    /\ table = None
    /\ calls = <<>>
    /\ trace = <<>>
    /\ norm = NormIdle

\* main.rs 82-98
Canonicalize ==
    /\ pc = "canonicalize"
    /\ \E ok \in BOOLEAN :
         IF ~ok
         THEN /\ Abort("canonicalize", ErrCanonicalize)
              /\ UNCHANGED canonicalized_path
         ELSE IF path_to_str(canonicalize(cli.library)) = None
         THEN /\ canonicalized_path' = Some(canonicalize(cli.library))
              /\ Abort("canonicalize", ErrInvalidPath)
         ELSE /\ canonicalized_path' = Some(canonicalize(cli.library))
              /\ trace' = Append(trace, Event("canonicalize", TRUE))
              /\ pc' = "connect_main_db"
              /\ UNCHANGED stderr
    /\ UNCHANGED <<cli, file_id, recommendations, files, corrected_path,
                   created_dirs, out_file, file_idx, stdout, table, calls, norm>>

\* main.rs 100-106
ConnectMainDb ==
    /\ pc = "connect_main_db"
    /\ calls' = Append(calls, Call("connect_main_db", <<Unwrap(canonicalized_path)>>))
    /\ \E ok \in BOOLEAN :
         IF ok
         THEN /\ trace' = Append(trace, Event("connect_main_db", TRUE))
              /\ pc' = "connect_recommendation_db"
              /\ UNCHANGED stderr
         ELSE Abort("connect_main_db", ErrMainDb)
    /\ UNCHANGED <<cli, canonicalized_path, file_id, recommendations, files,
                   corrected_path, created_dirs, out_file, file_idx, stdout,
                   table, norm>>

\* main.rs 108-116
ConnectRecommendationDb ==
    /\ pc = "connect_recommendation_db"
    /\ calls' = Append(calls, Call("connect_recommendation_db", <<Unwrap(canonicalized_path)>>))
    /\ \E ok \in BOOLEAN :
         IF ok
         THEN /\ trace' = Append(trace, Event("connect_recommendation_db", TRUE))
              /\ pc' = cli.command
              /\ UNCHANGED stderr
         ELSE Abort("connect_recommendation_db", ErrAnalysisDb)
    /\ UNCHANGED <<cli, canonicalized_path, file_id, recommendations, files,
                   corrected_path, created_dirs, out_file, file_idx, stdout,
                   table, norm>>

\* main.rs 117-120
Scan ==
    /\ pc = "scan"
    /\ calls' = Append(calls, Call("scan_audio_library", <<cli.library, TRUE>>))
    /\ stdout' = Append(stdout, Say(OkScan))
    /\ trace' = Append(trace, Event("scan", TRUE))
    /\ pc' = "exit"
    /\ UNCHANGED <<cli, canonicalized_path, file_id, recommendations, files,
                   corrected_path, created_dirs, out_file, file_idx, stderr,
                   table, norm>>

\* main.rs 121-125
Analyze ==
    /\ pc = "analyze"
    /\ calls' = Append(calls, Call("analysis_audio_library", <<cli.library, 10>>))
    /\ \E ok \in BOOLEAN :
         IF ok
         THEN /\ trace' = Append(trace, Event("analyze", TRUE))
              /\ pc' = "sync"
              /\ UNCHANGED stderr
         ELSE Abort("analyze", ErrAnalysis)
    /\ UNCHANGED <<cli, canonicalized_path, file_id, recommendations, files,
                   corrected_path, created_dirs, out_file, file_idx, stdout,
                   table, norm>>

\* main.rs 127-132
SyncRecommendation ==
    /\ pc = "sync"
    /\ calls' = Append(calls, Call("sync_recommendation", <<>>))
    /\ \E ok \in BOOLEAN :
         IF ok
         THEN /\ trace' = Append(trace, Event("sync", TRUE))
              /\ stdout' = Append(stdout, Say(OkAnalyze))
              /\ pc' = "exit"
              /\ UNCHANGED stderr
         ELSE /\ Abort("sync", ErrSync)
              /\ UNCHANGED stdout
    /\ UNCHANGED <<cli, canonicalized_path, file_id, recommendations, files,
                   corrected_path, created_dirs, out_file, file_idx, table, norm>>

\* a faulty variant: the path lookup runs whatever selector was given, and a missing
\* selector falls back to item 1
ResolveAlwaysLooksUp ==
    /\ pc = "recommend"
    /\ calls' = Append(calls, Call("get_file_id_from_path", <<cli.library>>))
    /\ file_id' = IF cli.item_id # None THEN cli.item_id ELSE Some(1)
    /\ trace' = Append(trace, Event("resolve", TRUE))
    /\ pc' = "retrieve"
    /\ UNCHANGED <<cli, canonicalized_path, recommendations, files,
                   corrected_path, created_dirs, out_file, file_idx, stderr,
                   stdout, table, norm>>

\* main.rs 141-154
Resolve ==
    /\ pc = "recommend"
    /\ IF cli.item_id # None
       THEN /\ file_id' = cli.item_id
            /\ trace' = Append(trace, Event("resolve", TRUE))
            /\ pc' = "retrieve"
            /\ UNCHANGED <<calls, stderr>>
       ELSE IF cli.file_path # None
       THEN /\ calls' = Append(calls, Call("get_file_id_from_path",
                                         <<cli.library, Unwrap(cli.file_path)>>))
            /\ \E r \in {None} \cup {Some(i) : i \in LookupIdByPath(Unwrap(cli.file_path))} :
                 IF r # None
                 THEN /\ file_id' = r
                      /\ trace' = Append(trace, Event("resolve", TRUE))
                      /\ pc' = "retrieve"
                      /\ UNCHANGED stderr
                 ELSE /\ Abort("resolve", ErrLookup)
                      /\ UNCHANGED file_id
       ELSE /\ Abort("resolve", ErrSelector)
            /\ UNCHANGED <<file_id, calls>>
    /\ UNCHANGED <<cli, canonicalized_path, recommendations, files,
                   corrected_path, created_dirs, out_file, file_idx,
                   stdout, table, norm>>

\* main.rs 156-162
Retrieve ==
    /\ pc = "retrieve"
    /\ calls' = Append(calls, Call("get_recommendation", <<Unwrap(file_id), cli.num>>))
    /\ \E r \in {None} \cup {Some(l) : l \in RecommendationLists(cli.num)} :
         IF r # None
         THEN /\ recommendations' = Unwrap(r)
              /\ trace' = Append(trace, Event("retrieve", TRUE))
              /\ pc' = "join"
              /\ UNCHANGED stderr
         ELSE /\ Abort("retrieve", ErrRetrieve)
              /\ UNCHANGED recommendations
    /\ UNCHANGED <<cli, canonicalized_path, file_id, files, corrected_path,
                   created_dirs, out_file, file_idx, stdout, table, norm>>

\* a faulty variant: a failed lookup is reported but the run goes on to render
JoinContinuesOnError ==
    /\ pc = "join"
    /\ calls' = Append(calls, Call("get_files_by_ids", <<>>))
    /\ stderr' = Append(stderr, ErrJoin)
    /\ trace' = Append(trace, Event("join", FALSE))
    /\ pc' = "render"
    /\ UNCHANGED <<cli, canonicalized_path, file_id, recommendations, files,
                   corrected_path, created_dirs, out_file, file_idx, stdout,
                   table, norm>>

\* main.rs 164-172
Join ==
    /\ pc = "join"
    /\ LET ids == [i \in DOMAIN recommendations |-> recommendations[i].id]
       IN /\ calls' = Append(calls, Call("get_files_by_ids", <<ids>>))
          /\ \E r \in {None} \cup {Some(l) : l \in StoreResults(ids)} :
            IF r # None
            THEN /\ files' = Unwrap(r)
                 /\ trace' = Append(trace, Event("join", TRUE))
                 /\ pc' = "render"
                 /\ UNCHANGED stderr
            ELSE /\ Abort("join", ErrJoin)
                 /\ UNCHANGED files
    /\ UNCHANGED <<cli, canonicalized_path, file_id, recommendations,
                   corrected_path, created_dirs, out_file, file_idx, stdout,
                   table, norm>>

\* ---------------------------------------------------------------- render
Ext(fmt) == <<fmt>>

\* main.rs 176-188 (json) and 215-227 (m3u8): the output path is required,
\* joined to the canonical library root and given the format's extension;
\* the warning compares the result with the output path as supplied
PrepareOutput(fmt, warning, next) ==
    /\ pc = "render"
    /\ cli.format = Some(fmt)
    /\ IF cli.output = None
       THEN /\ Abort("render", ErrOutputRequired)
            /\ UNCHANGED corrected_path
       ELSE LET output_path == Unwrap(cli.output)
                corrected == check_and_correct_extension(
                                 join(Unwrap(canonicalized_path), output_path), Ext(fmt))
            IN /\ corrected_path' = Some(corrected)
               /\ stderr' = IF ~path_eq(corrected, output_path)
                            THEN Append(stderr, warning) ELSE stderr
               /\ trace' = Append(trace, Event("render", TRUE))
               /\ pc' = next
    /\ UNCHANGED <<cli, canonicalized_path, file_id, recommendations, files,
                   created_dirs, out_file, file_idx, stdout, table, calls, norm>>

\* main.rs 190-196 and 229-235: fs::create_dir_all on the parent, if any
CreateDirs(at, next) ==
    /\ pc = at
    /\ LET par == parent(Unwrap(corrected_path))
       IN IF par = None
          THEN /\ pc' = next
               /\ UNCHANGED <<created_dirs, stderr, trace>>
          ELSE \/ /\ created_dirs' = created_dirs \cup MissingDirs(Unwrap(par))
                  /\ trace' = Append(trace, Event("create_dirs", TRUE))
                  /\ pc' = next
                  /\ UNCHANGED stderr
               \/ \E made \in FailedCreateDirs(Unwrap(par)) :
                    /\ created_dirs' = created_dirs \cup made
                    /\ Abort("create_dirs", ErrCreateDirs)
    /\ UNCHANGED <<cli, canonicalized_path, file_id, recommendations, files,
                   corrected_path, out_file, file_idx, stdout, table, calls, norm>>

\* main.rs 199-205 and 237-243: File::create; a path that names a directory
\* (no final file name) cannot be created
CreateFile(at, next) ==
    /\ pc = at
    /\ \E ok \in BOOLEAN :
         IF ok /\ file_name(Unwrap(corrected_path)) # None
         THEN /\ out_file' = Some([path |-> Unwrap(corrected_path),
                                   header |-> <<>>, body |-> <<>>, torn |-> FALSE])
              /\ trace' = Append(trace, Event("create_file", TRUE))
              /\ pc' = next
              /\ UNCHANGED stderr
         ELSE /\ Abort("create_file", ErrCreateFile)
              /\ UNCHANGED out_file
    /\ UNCHANGED <<cli, canonicalized_path, file_id, recommendations, files,
                   corrected_path, created_dirs, file_idx, stdout, table, calls, norm>>

JsonPrepare == PrepareOutput("json", WarnJson, "json_dirs")
JsonCreateDirs == CreateDirs("json_dirs", "json_create")
JsonCreateFile == CreateFile("json_create", "json_write")

\* json!(recommendations): an array of [id, distance] arrays
to_json(recs) == [i \in DOMAIN recs |-> <<recs[i].id, recs[i].distance>>]

\* the first record with the given id (Iterator::find)
find(fs, id) ==
    LET hits == {i \in DOMAIN fs : fs[i].id = id}
    IN IF hits = {} THEN None
       ELSE Some(fs[CHOOSE i \in hits : \A j \in hits : i <= j])

\* the retrieved entries that have a file record, in retrieval order
Joined(recs, fs) == SelectSeq(recs, LAMBDA r : find(fs, r.id) # None)

\* write_all and writeln! that fail: the items that reached the file whole,
\* and whether a piece of the next item followed them (the brackets of the
\* array are not items: every item whole and nothing after them is a file
\* that lacks only its closing bracket, or an empty file when the opening
\* bracket did not reach it)
PartialWrites(data) ==
    [whole : {SubSeq(data, 1, k) : k \in 0..Len(data)}, torn : BOOLEAN]

\* a faulty variant: only the entries that have a file record are serialised
JsonWriteJoinedOnly ==
    /\ pc = "json_write"
    /\ out_file' = Some([Unwrap(out_file) EXCEPT
                            !.body = to_json(Joined(recommendations, files))])
    /\ stdout' = Append(stdout, Say(OkJson))
    /\ trace' = Append(trace, Event("write", TRUE))
    /\ pc' = "exit"
    /\ UNCHANGED <<cli, canonicalized_path, file_id, recommendations, files,
                   corrected_path, created_dirs, file_idx, stderr, table, calls, norm>>

\* main.rs 198, 207-212
JsonWrite ==
    /\ pc = "json_write"
    /\ \E ok \in BOOLEAN :
         IF ok
         THEN /\ out_file' = Some([Unwrap(out_file) EXCEPT
                                      !.body = to_json(recommendations)])
              /\ stdout' = Append(stdout, Say(OkJson))
              /\ trace' = Append(trace, Event("write", TRUE))
              /\ pc' = "exit"
              /\ UNCHANGED stderr
         ELSE /\ Abort("write", ErrWrite)
              /\ \E w \in PartialWrites(to_json(recommendations)) :
                   out_file' = Some([Unwrap(out_file) EXCEPT
                                        !.body = w.whole, !.torn = w.torn])
              /\ UNCHANGED stdout
    /\ UNCHANGED <<cli, canonicalized_path, file_id, recommendations, files,
                   corrected_path, created_dirs, file_idx, table, calls, norm>>

\* a faulty variant: a missing output path falls back to "out" under the library
M3u8PrepareDefaultsOutput ==
    /\ pc = "render"
    /\ cli.format = Some("m3u8")
    /\ LET output_path == IF cli.output = None THEN Path(FALSE, <<OutName>>)
                          ELSE Unwrap(cli.output)
           corrected == check_and_correct_extension(
                            join(Unwrap(canonicalized_path), output_path), Ext("m3u8"))
       IN /\ corrected_path' = Some(corrected)
          /\ stderr' = IF ~path_eq(corrected, output_path)
                       THEN Append(stderr, WarnM3u8) ELSE stderr
          /\ trace' = Append(trace, Event("render", TRUE))
          /\ pc' = "m3u8_dirs"
    /\ UNCHANGED <<cli, canonicalized_path, file_id, recommendations, files,
                   created_dirs, out_file, file_idx, stdout, table, calls, norm>>

M3u8Prepare == PrepareOutput("m3u8", WarnM3u8, "m3u8_dirs")
M3u8CreateDirs == CreateDirs("m3u8_dirs", "m3u8_create")
M3u8CreateFile == CreateFile("m3u8_create", "m3u8_header")

\* main.rs 245-248
M3u8Header ==
    /\ pc = "m3u8_header"
    /\ \E ok \in BOOLEAN :
         IF ok
         THEN /\ out_file' = Some([Unwrap(out_file) EXCEPT !.header = <<Header>>])
              /\ file_idx' = 1
              /\ trace' = Append(trace, Event("write", TRUE))
              /\ pc' = "m3u8_loop"
              /\ UNCHANGED stderr
         ELSE /\ Abort("write", ErrWrite)
              /\ \E torn \in BOOLEAN :
                   out_file' = Some([Unwrap(out_file) EXCEPT !.torn = torn])
              /\ UNCHANGED file_idx
    /\ UNCHANGED <<cli, canonicalized_path, file_id, recommendations, files,
                   corrected_path, created_dirs, stdout, table, calls, norm>>

\* library_root/directory/file_name, on the library root as supplied
TrackPath(file_info) == join(join(cli.library, file_info.directory), file_info.file_name)

\* main.rs 250-268: one iteration of `for file_info in files`
M3u8Line ==
    /\ pc = "m3u8_loop"
    /\ file_idx <= Len(files)
    /\ LET relative_path == TrackPath(files[file_idx])
           relative_to_output ==
               diff_paths(relative_path, Unwrap(parent(Unwrap(corrected_path))))
       IN IF relative_to_output = None
          THEN /\ Abort("relative_path", ErrRelative)
               /\ UNCHANGED <<out_file, file_idx>>
          ELSE \E ok \in BOOLEAN :
                 IF ok
                 THEN /\ out_file' = Some([Unwrap(out_file) EXCEPT
                               !.body = Append(@, Unwrap(relative_to_output))])
                      /\ file_idx' = file_idx + 1
                      /\ trace' = Append(trace, Event("write", TRUE))
                      /\ UNCHANGED <<stderr, pc>>
                 ELSE /\ Abort("write", ErrWrite)
                      /\ \E torn \in BOOLEAN :
                           out_file' = Some([Unwrap(out_file) EXCEPT !.torn = torn])
                      /\ UNCHANGED file_idx
    /\ UNCHANGED <<cli, canonicalized_path, file_id, recommendations, files,
                   corrected_path, created_dirs, stdout, table, calls, norm>>

\* main.rs 268-270: the loop is over; to_str().unwrap() panics on a path
\* that is not UTF-8
M3u8Finish ==
    /\ pc = "m3u8_loop"
    /\ file_idx > Len(files)
    /\ IF path_to_str(Unwrap(corrected_path)) = None
       THEN /\ stderr' = Append(stderr, PanicUnwrap)
            /\ trace' = Append(trace, Event("finish", FALSE))
            /\ UNCHANGED stdout
       ELSE /\ stdout' = Append(stdout, SayWith(OkM3u8, Unwrap(corrected_path)))
            /\ trace' = Append(trace, Event("finish", TRUE))
            /\ UNCHANGED stderr
    /\ pc' = "exit"
    /\ UNCHANGED <<cli, canonicalized_path, file_id, recommendations, files,
                   corrected_path, created_dirs, out_file, file_idx,
                   table, calls, norm>>

\* main.rs 272-274
Unsupported ==
    /\ pc = "render"
    /\ cli.format # None
    /\ cli.format \notin {Some("json"), Some("m3u8")}
    /\ Abort("render", ErrUnsupported)
    /\ UNCHANGED <<cli, canonicalized_path, file_id, recommendations, files,
                   corrected_path, created_dirs, out_file, file_idx, stdout,
                   table, calls, norm>>

\* format!("{:0>5}", id): the decimal digits, zero-padded on the left to 5
RECURSIVE Digits(_)
Digits(n) == IF n < 10 THEN <<n>> ELSE Append(Digits(n \div 10), n % 10)
RECURSIVE PadLeft(_, _)
PadLeft(ds, w) == IF Len(ds) >= w THEN ds ELSE PadLeft(<<0>> \o ds, w)
FormatId(id) == PadLeft(Digits(id), 5)

\* format!("{:.4}", distance): the integral part and four decimals
FormatDistance(d) == [int |-> Digits(d), frac |-> <<0, 0, 0, 0>>]

Row(entry, file_info) ==
    [ id |-> FormatId(entry.id),
      distance |-> FormatDistance(entry.distance),
      file_path |-> TrackPath(file_info) ]

\* a faulty variant: one row per file record, in the order of the store
TableRowsStoreOrder(recs, fs) ==
    [i \in DOMAIN fs |->
        Row(CHOOSE e \in {recs[j] : j \in DOMAIN recs} : e.id = fs[i].id, fs[i])]

\* main.rs 281-292: one row per entry whose record is found
TableRows(recs, fs) ==
    LET hit == Joined(recs, fs)
    IN [i \in DOMAIN hit |-> Row(hit[i], Unwrap(find(fs, hit[i].id)))]

\* main.rs 275-295
Table ==
    /\ pc = "render"
    /\ cli.format = None
    /\ table' = Some(TableRows(recommendations, files))
    /\ trace' = Append(trace, Event("render", TRUE))
    /\ pc' = "exit"
    /\ UNCHANGED <<cli, canonicalized_path, file_id, recommendations, files,
                   corrected_path, created_dirs, out_file, file_idx, stderr,
                   stdout, calls, norm>>

Next ==
    \/ Canonicalize
    \/ ConnectMainDb
    \/ ConnectRecommendationDb
    \/ Scan
    \/ Analyze
    \/ SyncRecommendation
    \/ Resolve
    \/ Retrieve
    \/ Join
    \/ JsonPrepare
    \/ JsonCreateDirs
    \/ JsonCreateFile
    \/ JsonWrite
    \/ M3u8Prepare
    \/ M3u8CreateDirs
    \/ M3u8CreateFile
    \/ M3u8Header
    \/ M3u8Line
    \/ M3u8Finish
    \/ Unsupported
    \/ Table

Spec == Init /\ [][Next]_vars

\* ---------------------------------------------------------------- normalizer alone
NormComponents ==
    { OutName, OutJson, OutM3u8, OutUpper, <<".", "json">>, <<"out", ".">>,
      <<"a", ".", "b", ".", "json">>, ParentDir, CurDir, N("x") }

NormPaths ==
    {Path(a, c) : a \in BOOLEAN,
                  c \in UNION {[1..n -> NormComponents] : n \in 0..MaxDepth}}

NormExts == { <<"json">>, <<"m3u8">>, <<>>, <<"tar", ".", "gz">> }

IdleCli == [command |-> "idle", library |-> Path(TRUE, <<>>), item_id |-> None,
            file_path |-> None, num |-> 10, format |-> None, output |-> None]

InitNormalize ==
    /\ cli = IdleCli
    /\ pc = "idle"
    /\ canonicalized_path = None
    /\ file_id = None
    /\ recommendations = <<>>
    /\ files = <<>>
    /\ corrected_path = None
    /\ created_dirs = {}
    /\ out_file = None
    /\ file_idx = 0
    /\ stderr = <<>>
    /\ stdout = <<>>
    /\ table = None
    /\ calls = <<>>
    /\ trace = <<>>
    /\ \E p \in NormPaths, e \in NormExts :
         norm = [step |-> 1, p |-> p, e |-> e, once |-> p, twice |-> p]

\* check_and_correct_extension(p, e)
NormalizeOnce ==
    /\ norm.step = 1
    /\ norm' = [norm EXCEPT !.step = 2,
                            !.once = check_and_correct_extension(norm.p, norm.e)]
    /\ UNCHANGED pipeline_vars

\* check_and_correct_extension(check_and_correct_extension(p, e), e)
NormalizeTwice ==
    /\ norm.step = 2
    /\ norm' = [norm EXCEPT !.step = 3,
                            !.twice = check_and_correct_extension(norm.once, norm.e)]
    /\ UNCHANGED pipeline_vars

NextNormalize == NormalizeOnce \/ NormalizeTwice

SpecNormalize == InitNormalize /\ [][NextNormalize]_vars

\* ---------------------------------------------------------------- properties
Range(q) == {q[i] : i \in DOMAIN q}

Failures ==
    { ErrCanonicalize, ErrInvalidPath, PanicUnwrap, ErrMainDb, ErrAnalysisDb, ErrAnalysis, ErrSync, ErrLookup,
      ErrSelector, ErrRetrieve, ErrJoin, ErrOutputRequired, ErrCreateDirs,
      ErrCreateFile, ErrWrite, ErrRelative, ErrUnsupported }

Failed == Range(stderr) \cap Failures # {}

FileFormats == {Some("json"), Some("m3u8")}

\* the messages printed to standard output
Said == {stdout[i].msg : i \in DOMAIN stdout}

\* the collaborator operations invoked
Invoked == {calls[i].fn : i \in DOMAIN calls}

\* the directory the output file lives in
OutputDir == Unwrap(parent(Unwrap(corrected_path)))

\* a relative path resolved against an absolute directory
ResolveAgainst(base, rel) == Path(TRUE, LexResolve(<<>>, join(base, rel).comps))

\* the playlist line the claim expects for a file record
ExpectedLine(file_info) == diff_paths(TrackPath(file_info), OutputDir)

RECURSIVE DigitsValue(_)
DigitsValue(ds) ==
    IF ds = <<>> THEN 0
    ELSE 10 * DigitsValue(SubSeq(ds, 1, Len(ds) - 1)) + ds[Len(ds)]

\* C1: in M3U8 mode the lines after the header are one line per retrieved
\* entry that has a FileRecord, in the order of retrieval, whatever the order
\* in which the store returned the records.
C1_M3u8LinesInRetrievalOrder ==
    (cli.format = Some("m3u8") /\ OkM3u8 \in Said) =>
        LET hit == Joined(recommendations, files)
            body == Unwrap(out_file).body
        IN /\ Len(body) = Len(hit)
           /\ \A i \in DOMAIN hit :
                Some(body[i]) = ExpectedLine(Unwrap(find(files, hit[i].id)))

\* C2: with an output path in JSON or M3U8 mode, the extension warning is
\* printed exactly when the normalizer changed the path it was given.
C2_WarningIffExtensionChanged ==
    corrected_path # None =>
        LET given == join(Unwrap(canonicalized_path), Unwrap(cli.output))
            warning == IF cli.format = Some("json") THEN WarnJson ELSE WarnM3u8
        IN (warning \in Range(stderr)) <=> ~path_eq(Unwrap(corrected_path), given)

StagesInOrder ==
    \A i \in DOMAIN trace :
        /\ trace[i].stage = "retrieve" =>
              \E j \in 1..(i - 1) : trace[j] = Event("resolve", TRUE)
        /\ trace[i].stage = "join" =>
              \E j \in 1..(i - 1) : trace[j] = Event("retrieve", TRUE)
        /\ trace[i].stage = "render" =>
              \E j \in 1..(i - 1) : trace[j] = Event("join", TRUE)
        /\ trace[i].stage \in {"create_dirs", "create_file", "write",
                               "relative_path", "finish"} =>
              \E j \in 1..(i - 1) : trace[j] = Event("render", TRUE)

\* C3: once a stage has failed and its diagnostic is printed nothing else
\* happens (no collaborator call, no stage, no write, no confirmation), a
\* failed run has printed no confirmation, and a stage starts only after the
\* stages before it have succeeded.
C3_FailureAbortsAndStagesInOrder ==
    [][ /\ Failed => /\ calls' = calls
                     /\ trace' = trace
                     /\ out_file' = out_file
                     /\ created_dirs' = created_dirs
                     /\ stdout' = stdout
                     /\ table' = table
        /\ Failed' => (stdout' = <<>> /\ table' = None)
        /\ StagesInOrder' ]_vars

C3_Witness ==
    /\ pc = "exit"
    /\ cli.format = Some("m3u8")
    /\ stderr # <<>>
    /\ stderr[Len(stderr)] = ErrWrite
    /\ out_file # None
    /\ Len(Unwrap(out_file).body) >= 1

\* C4: every M3U8 line, resolved against the directory of the output file,
\* names library_root/directory/file_name.
C4_M3u8LineRoundTrips ==
    (cli.format = Some("m3u8") /\ out_file # None) =>
        \A i \in DOMAIN Unwrap(out_file).body :
            ResolveAgainst(OutputDir, Unwrap(out_file).body[i])
                = canonicalize(TrackPath(files[i]))

\* C5: the path returned by the normalizer, on which the file is created,
\* has the canonical extension of the format.
C5_CorrectedPathHasCanonicalExtension ==
    corrected_path # None =>
        extension(Unwrap(corrected_path)) = Some(Ext(Unwrap(cli.format)))

\* C6: directories and files are created only for json or m3u8 with an
\* output path; an unsupported format ends with its error and json/m3u8
\* without an output path with the usage error, nothing created.
C6_OnlyFileFormatsTouchTheFilesystem ==
    /\ (created_dirs # {} \/ out_file # None) =>
           (cli.format \in FileFormats /\ cli.output # None)
    /\ (pc = "exit" /\ Event("join", TRUE) \in Range(trace)
          /\ cli.format # None /\ cli.format \notin FileFormats) =>
           (ErrUnsupported \in Range(stderr) /\ stdout = <<>>)
    /\ (pc = "exit" /\ Event("join", TRUE) \in Range(trace)
          /\ cli.format \in FileFormats /\ cli.output = None) =>
           (ErrOutputRequired \in Range(stderr) /\ stdout = <<>>)

C6_Witness ==
    /\ pc = "exit"
    /\ cli.format = None
    /\ cli.output # None
    /\ table # None
    /\ Len(Unwrap(table)) >= 1
    /\ created_dirs = {}
    /\ out_file = None

\* C7: the JSON array written equals the retrieved sequence: same length,
\* same (id, distance) pairs, same order, entries without a record included.
C7_JsonArrayEqualsRetrieved ==
    (cli.format = Some("json") /\ OkJson \in Said) =>
        LET body == Unwrap(out_file).body
        IN /\ Len(body) = Len(recommendations)
           /\ \A i \in DOMAIN recommendations :
                /\ body[i][1] = recommendations[i].id
                /\ body[i][2] = recommendations[i].distance

C7_Witness ==
    /\ cli.format = Some("json")
    /\ OkJson \in Said
    /\ Len(recommendations) >= 2
    /\ \E i \in DOMAIN recommendations : find(files, recommendations[i].id) = None

\* C8: the table has one row per retrieved entry that has a FileRecord with
\* the same id, in retrieval order, with the entry's id and the record's
\* directory and file name; an entry without a record has no row.
C8_TableRowsFollowRetrieval ==
    table # None =>
        LET rows == Unwrap(table)
            hit == SelectSeq(recommendations,
                             LAMBDA e : \E k \in DOMAIN files : files[k].id = e.id)
        IN /\ Len(rows) = Len(hit)
           /\ \A i \in DOMAIN hit :
                /\ DigitsValue(rows[i].id) = hit[i].id
                /\ Len(rows[i].id) = 5
                /\ \E k \in DOMAIN files :
                     /\ files[k].id = hit[i].id
                     /\ rows[i].file_path =
                          join(join(cli.library, files[k].directory), files[k].file_name)

C8_Witness ==
    /\ table # None
    /\ Len(recommendations) = MaxNum
    /\ Len(Unwrap(table)) >= 2
    /\ files[1].id # recommendations[1].id
    /\ \E i \in DOMAIN recommendations : find(files, recommendations[i].id) = None

\* C9: with neither item_id nor file_path the run reports the usage error
\* without calling a collaborator or rendering; a supplied item_id is the
\* item id as is, with no lookup by path.
C9_SelectorHandling ==
    /\ (cli.command = "recommend" /\ cli.item_id = None /\ cli.file_path = None) =>
           /\ Invoked \cap {"get_file_id_from_path", "get_recommendation",
                           "get_files_by_ids"} = {}
           /\ table = None /\ out_file = None /\ stdout = <<>>
           /\ pc \notin {"retrieve", "join", "render"}
           /\ (pc = "exit" /\ Event("connect_recommendation_db", TRUE) \in Range(trace))
                 => ErrSelector \in Range(stderr)
    /\ cli.item_id # None =>
           /\ "get_file_id_from_path" \notin Invoked
           /\ file_id \in {None, cli.item_id}
           /\ Event("resolve", FALSE) \notin Range(trace)

C9_Witness ==
    /\ pc = "exit"
    /\ cli.item_id = None /\ cli.file_path = None
    /\ ErrSelector \in Range(stderr)

\* C10 as stated: normalizing twice equals normalizing once, for every path
\* and every expected extension.
C10_NormalizeIdempotent ==
    norm.step = 3 => path_eq(norm.twice, norm.once)

\* C10 amended: normalizing twice equals normalizing once, for every path and
\* every expected extension that is not empty and contains no dot.
C10_NormalizeIdempotentDotFree ==
    (norm.step = 3 /\ norm.e # <<>> /\ LastDot(norm.e) = 0) =>
        path_eq(norm.twice, norm.once)

C10_Witness ==
    /\ norm.step = 3
    /\ LastDot(norm.e) = 0
    /\ norm.e # <<>>
    /\ ~path_eq(norm.once, norm.p)
    /\ extension(norm.p) # None

====
